---- MODULE Spec2Model ----
(***************************************************************************)
(* Model of the bc-hydro-drought-monitor ingestion and transform code:     *)
(*   src/src/transform.py   link_facilities_to_watershed_groups            *)
(*   src/src/io/files.py    unzip_file, csv_to_geodataframe                *)
(*   src/src/clients/wfs.py download_shapefile                             *)
(*   src/src/ingest.py      ingest_facilities, ingest_watershed_groups     *)
(*                                                                         *)
(* Python objects live in a heap (a sequence of GeoDataFrame values, the   *)
(* position being the object's identity); a library call that returns a    *)
(* new frame appends to the heap, a call that works in place rewrites an   *)
(* existing position.                                                      *)
(***************************************************************************)
EXTENDS Integers, Sequences, FiniteSets, TLC

VARIABLES heap,           \* Python heap of GeoDataFrame objects
          pc,             \* the function about to run, or how the call ended
          ret,            \* reference returned by the transform, 0 if none
          exc,            \* exception the call raised, "" if none
          to_crs_calls,   \* number of GeoDataFrame.to_crs calls made
          fs,             \* the files on disk: resolved path -> content
          zip,            \* the archive file at zip_path
          server,         \* what the WFS endpoint will answer
          overwrite,      \* the overwrite argument of unzip_file
          extracted,      \* the list unzip_file returned
          log             \* the collaborator calls made, with their outcome

joinVars == <<heap, ret, to_crs_calls>>
fileVars == <<fs, zip, server, overwrite, extracted, log>>

vars == <<heap, pc, ret, exc, to_crs_calls,
          fs, zip, server, overwrite, extracted, log>>

(***************************************************************************)
(* Bounds of the model.                                                    *)
(***************************************************************************)
MaxPoints == 2
MaxPolys == 2
MaxEntries == 2

(***************************************************************************)
(* Values.  A scalar cell of a frame is <<v>>, a null (NaN) cell is <<>>.  *)
(***************************************************************************)
NaN == <<>>

NoCRS == "None"
CRSs == {"EPSG:4326", "EPSG:3005"}

NoExc == ""

(***************************************************************************)
(* Coordinate transformation, the model of the PROJ pipeline behind        *)
(* GeoDataFrame.to_crs.  EPSG:4326 is the reference frame;  EPSG:3005 has  *)
(* its axes swapped and a false easting of one unit.                       *)
(***************************************************************************)
ToReference(crs, xy) ==
    IF crs = "EPSG:3005" THEN <<xy[2], xy[1] - 1>> ELSE xy

FromReference(crs, xy) ==
    IF crs = "EPSG:3005" THEN <<xy[2] + 1, xy[1]>> ELSE xy

transform(from, to, xy) == FromReference(to, ToReference(from, xy))

\* A polygon is an axis-parallel rectangle given by two opposite corners.
transform_polygon(from, to, g) ==
    [lo |-> transform(from, to, g.lo), hi |-> transform(from, to, g.hi)]

\* The predicate 'intersects' in place of 'within': the boundary counts.
within_closed(p, g) ==
    /\ g.lo[1] <= p[1] /\ p[1] <= g.hi[1]
    /\ g.lo[2] <= p[2] /\ p[2] <= g.hi[2]

\* shapely "within" of a point and a polygon: the point is in the interior;
\* a point on the boundary is not within.
within(p, g) ==
    /\ g.lo[1] < p[1] /\ p[1] < g.hi[1]
    /\ g.lo[2] < p[2] /\ p[2] < g.hi[2]

(***************************************************************************)
(* Frames the loaders can produce.                                         *)
(***************************************************************************)
FacilityColumns == {"facility", "name"}
WatershedColumns == {"WATERSHED_GROUP_CODE", "name"}

\* The geometries of the loaded frames, in the frame's own coordinates.
\* Between them a point is inside one polygon, inside two, on a boundary,
\* on a corner or outside everything, in either CRS and across the two.
PointGeoms == {<<0, 0>>, <<1, 0>>, <<1, 1>>, <<2, 1>>}

PolygonGeoms ==
    {[lo |-> <<0, 0>>, hi |-> <<2, 2>>],
     [lo |-> <<1, 0>>, hi |-> <<3, 2>>],
     [lo |-> <<0, 0>>, hi |-> <<3, 2>>],
     [lo |-> <<0, 0>>, hi |-> <<1, 1>>]}

SeqsUpTo(S, n) == UNION {[1..k -> S] : k \in 0..n}

\* Row i of a loaded frame: a RangeIndex label and the row's own cells.
FacilityRow(i, geom) ==
    [index |-> i - 1, geometry |-> geom,
     attrs |-> [c \in FacilityColumns |-> <<"F" \o ToString(i) \o "." \o c>>]]

WatershedRow(j, geom) ==
    [index |-> j - 1, geometry |-> geom,
     attrs |-> [c \in WatershedColumns |-> <<"W" \o ToString(j) \o "." \o c>>]]

FacilityFrames ==
    {[crs |-> c, columns |-> FacilityColumns,
      rows |-> [i \in DOMAIN gs |-> FacilityRow(i, gs[i])]] :
        c \in CRSs \cup {NoCRS}, gs \in SeqsUpTo(PointGeoms, MaxPoints)}

WatershedFrames ==
    {[crs |-> c, columns |-> WatershedColumns,
      rows |-> [j \in DOMAIN gs |-> WatershedRow(j, gs[j])]] :
        c \in CRSs \cup {NoCRS}, gs \in SeqsUpTo(PolygonGeoms, MaxPolys)}

\* set_crs in place of to_crs: the identifier changes, the geometries stay.
reprojected_set_crs(gdf, crs) == [gdf EXCEPT !.crs = crs]

(***************************************************************************)
(* GeoDataFrame.to_crs(crs): a reprojected copy, a new object.             *)
(***************************************************************************)
reprojected(gdf, crs) ==
    [gdf EXCEPT !.crs = crs,
                !.rows = [j \in DOMAIN gdf.rows |->
                    [gdf.rows[j] EXCEPT !.geometry =
                        transform_polygon(gdf.crs, crs, gdf.rows[j].geometry)]]]

to_crs_inplace(h, ref, crs) ==
    IF h[ref].crs = NoCRS \/ crs = NoCRS
    THEN [heap |-> h, ref |-> 0, exc |-> "ValueError"]
    ELSE [heap |-> [h EXCEPT ![ref] = reprojected(h[ref], crs)],
          ref |-> ref, exc |-> NoExc]

to_crs(h, ref, crs) ==
    IF h[ref].crs = NoCRS \/ crs = NoCRS
    THEN [heap |-> h, ref |-> 0, exc |-> "ValueError"]
    ELSE [heap |-> Append(h, reprojected(h[ref], crs)),
          ref |-> Len(h) + 1, exc |-> NoExc]

(***************************************************************************)
(* geopandas.sjoin(left, right, how='left', predicate='within').           *)
(***************************************************************************)
\* Names of the joined columns: a name both frames have gets a suffix.
left_name(c, right_columns) ==
    IF c \in right_columns THEN c \o "_left" ELSE c

right_name(c, left_columns) ==
    IF c \in left_columns THEN c \o "_right" ELSE c

joined_columns(left_columns, right_columns) ==
    {left_name(c, right_columns) : c \in left_columns}
        \cup {"index_right"}
        \cup {right_name(c, left_columns) : c \in right_columns}

\* A join that keeps the first match only.
matches_first(geom, right_rows) ==
    LET m == SelectSeq([j \in DOMAIN right_rows |-> j],
                       LAMBDA j : within(geom, right_rows[j].geometry))
    IN  IF m = <<>> THEN m ELSE <<m[1]>>

\* The positions of the right rows the left geometry is within, ascending.
matches(geom, right_rows) ==
    SelectSeq([j \in DOMAIN right_rows |-> j],
              LAMBDA j : within(geom, right_rows[j].geometry))

\* A join that fills the cells of an unmatched row with empty strings.
joined_row_filled(lrow, left, right, j) ==
    [index |-> lrow.index, geometry |-> lrow.geometry,
     attrs |-> [c \in joined_columns(left.columns, right.columns) |->
        IF \E l \in left.columns : left_name(l, right.columns) = c
        THEN lrow.attrs[CHOOSE l \in left.columns :
                            left_name(l, right.columns) = c]
        ELSE IF j = 0 THEN <<"">>
        ELSE IF c = "index_right" THEN <<right.rows[j].index>>
        ELSE right.rows[j].attrs[CHOOSE r \in right.columns :
                                     right_name(r, left.columns) = c]]]

\* One joined row: the left row with the cells of right row j, or with
\* nulls when j = 0 (no match).
joined_row(lrow, left, right, j) ==
    [index |-> lrow.index, geometry |-> lrow.geometry,
     attrs |-> [c \in joined_columns(left.columns, right.columns) |->
        IF \E l \in left.columns : left_name(l, right.columns) = c
        THEN lrow.attrs[CHOOSE l \in left.columns :
                            left_name(l, right.columns) = c]
        ELSE IF j = 0 THEN NaN
        ELSE IF c = "index_right" THEN <<right.rows[j].index>>
        ELSE right.rows[j].attrs[CHOOSE r \in right.columns :
                                     right_name(r, left.columns) = c]]]

\* how='inner' in place of how='left': unmatched left rows are dropped.
RECURSIVE joined_rows_inner(_, _, _)
joined_rows_inner(left, right, i) ==
    IF i > Len(left.rows) THEN <<>>
    ELSE LET lrow == left.rows[i]
             m == matches(lrow.geometry, right.rows)
         IN  [k \in DOMAIN m |-> joined_row(lrow, left, right, m[k])]
                 \o joined_rows_inner(left, right, i + 1)

RECURSIVE joined_rows(_, _, _)
joined_rows(left, right, i) ==
    IF i > Len(left.rows) THEN <<>>
    ELSE LET lrow == left.rows[i]
             m == matches(lrow.geometry, right.rows)
             mine == IF m = <<>>
                     THEN <<joined_row(lrow, left, right, 0)>>
                     ELSE [k \in DOMAIN m |-> joined_row(lrow, left, right, m[k])]
         IN  mine \o joined_rows(left, right, i + 1)

sjoin(h, left, right) ==
    [heap |-> Append(h, [crs |-> h[left].crs,
                         columns |-> joined_columns(h[left].columns,
                                                    h[right].columns),
                         rows |-> joined_rows(h[left], h[right], 1)]),
     ref |-> Len(h) + 1, exc |-> NoExc]

(***************************************************************************)
(* transform.link_facilities_to_watershed_groups(facilities,               *)
(* watershed_groups); the parameters are references into the heap.         *)
(***************************************************************************)
link_always_to_crs(h, facilities, watershed_groups) ==
    LET t == to_crs(h, watershed_groups, h[facilities].crs)
    IN  IF t.exc # NoExc
        THEN [heap |-> t.heap, ref |-> 0, exc |-> t.exc, calls |-> 1]
        ELSE [calls |-> 1] @@ sjoin(t.heap, facilities, t.ref)

link_facilities_to_watershed_groups(h, facilities, watershed_groups) ==
    IF h[facilities].crs # h[watershed_groups].crs
    THEN LET t == to_crs(h, watershed_groups, h[facilities].crs)
         IN  IF t.exc # NoExc
             THEN [heap |-> t.heap, ref |-> 0, exc |-> t.exc, calls |-> 1]
             ELSE [calls |-> 1] @@ sjoin(t.heap, facilities, t.ref)
    ELSE [calls |-> 0] @@ sjoin(h, facilities, watershed_groups)

\* The caller's two arguments.
Facilities == 1
WatershedGroups == 2

NoFiles == [path \in {} |-> <<>>]
NoZip == [kind |-> "absent", entries |-> <<>>]
NoServer == [kind |-> "connection_error", body |-> NoZip]

Init ==
    /\ heap \in {<<f, w>> : f \in FacilityFrames, w \in WatershedFrames}
    /\ pc = "ready"
    /\ ret = 0
    /\ exc = NoExc
    /\ to_crs_calls = 0
    /\ fs = NoFiles
    /\ zip = NoZip
    /\ server = NoServer
    /\ overwrite = TRUE
    /\ extracted = <<>>
    /\ log = <<>>

Link ==
    /\ pc = "ready"
    /\ LET r == link_facilities_to_watershed_groups(heap, Facilities,
                                                    WatershedGroups)
       IN  /\ heap' = r.heap
           /\ ret' = r.ref
           /\ exc' = r.exc
           /\ to_crs_calls' = r.calls
           /\ pc' = IF r.exc = NoExc THEN "returned" ELSE "raised"
    /\ UNCHANGED fileVars

Next == Link

Spec == Init /\ [][Next]_vars

(***************************************************************************)
(* Configuration (config.py).  A path is the sequence of its components    *)
(* from the filesystem root.                                               *)
(***************************************************************************)
PROJECT_ROOT == <<"project">>
DATA_DIR == PROJECT_ROOT \o <<"data">>

FACILITIES ==
    [name |-> "facilities",
     raw_dir |-> DATA_DIR \o <<"raw">>,
     processed_dir |-> DATA_DIR \o <<"spacial">>]

FWA_WATERSHED_GROUPS ==
    [name |-> "fwa_watershed_groups",
     raw_dir |-> DATA_DIR \o <<"raw", "watershed_groups">>,
     processed_dir |-> DATA_DIR \o <<"spacial">>,
     output_name |-> "watershed_groups.zip"]

\* Default arguments of the two ingestion functions.
FacilitiesCsv == "facilities.csv"
FacilitiesGeojson == "facilities.geojson"
WatershedShp == "WHSE_BASEMAPPING_FWA_WATERSHED_GROUPS_POLYPolygon.shp"
WatershedGeojson == "watershed_groups.geojson"

(***************************************************************************)
(* Paths.                                                                  *)
(***************************************************************************)
\* pathlib's dir / name: an absolute name replaces dir, ".." is kept.
join_path(dir, name) ==
    IF name # <<>> /\ name[1] = "/" THEN Tail(name) ELSE dir \o name

\* The file a path names once the operating system has followed "..".
RECURSIVE resolve_onto(_, _)
resolve_onto(acc, rest) ==
    IF rest = <<>> THEN acc
    ELSE IF Head(rest) = ".."
         THEN resolve_onto(IF acc = <<>> THEN acc
                           ELSE SubSeq(acc, 1, Len(acc) - 1), Tail(rest))
         ELSE resolve_onto(Append(acc, Head(rest)), Tail(rest))

resolve(path) == resolve_onto(<<>>, path)

exists(files, path) == resolve(path) \in DOMAIN files

write(files, path, content) ==
    [q \in DOMAIN files \cup {path} |->
        IF q = path THEN content ELSE files[q]]

(***************************************************************************)
(* files.unzip_file(zip_path, output_dir, overwrite).                      *)
(***************************************************************************)
\* Where ZipFile.extract puts a member: below output_dir, the root marker
\* and every ".." component of the member's name removed.
member_path(output_dir, name) ==
    output_dir \o SelectSeq(name, LAMBDA c : c \notin {"/", "..", ".", ""})

\* ZipFile.extract(name) takes the last member of that name.
member_data(entries, name) ==
    LET ks == {k \in DOMAIN entries : entries[k].name = name}
    IN  entries[CHOOSE k \in ks : \A k2 \in ks : k2 <= k].data

RECURSIVE extract_all(_, _, _, _, _, _)
extract_all(files, entries, k, output_dir, ow, acc) ==
    IF k > Len(entries)
    THEN [fs |-> files, extracted |-> acc, exc |-> NoExc]
    ELSE LET entry == entries[k].name
             target == join_path(output_dir, entry)
         IN  IF exists(files, target) /\ ~ow
             THEN extract_all(files, entries, k + 1, output_dir, ow, acc)
             ELSE extract_all(write(files, member_path(output_dir, entry),
                                    member_data(entries, entry)),
                              entries, k + 1, output_dir, ow,
                              Append(acc, target))

unzip_file(files, z, output_dir, ow) ==
    IF z.kind = "absent"
    THEN [fs |-> files, extracted |-> <<>>, exc |-> "FileNotFoundError"]
    ELSE IF z.kind # "zip"
    THEN [fs |-> files, extracted |-> <<>>, exc |-> "BadZipFile"]
    ELSE extract_all(files, z.entries, 1, output_dir, ow, <<>>)

(***************************************************************************)
(* wfs.download_shapefile(cfg): the file is opened for writing only after  *)
(* raise_for_status; a stream that breaks leaves a truncated file.         *)
(***************************************************************************)
download_shapefile(z, response) ==
    IF response.kind = "connection_error"
    THEN [zip |-> z, exc |-> "ConnectionError"]
    ELSE IF response.kind = "http_error"
    THEN [zip |-> z, exc |-> "HTTPError"]
    ELSE IF response.kind = "broken_stream"
    THEN [zip |-> [kind |-> "corrupt", entries |-> <<>>],
          exc |-> "ChunkedEncodingError"]
    ELSE [zip |-> response.body, exc |-> NoExc]

(***************************************************************************)
(* files.csv_to_geodataframe(csv_path, x_col, y_col, crs='EPSG:4326'),     *)
(* called with the positional arguments args.  It reads and returns a      *)
(* frame; it writes nothing.                                               *)
(***************************************************************************)
csv_to_geodataframe(files, args) ==
    IF Len(args) < 3 THEN [fs |-> files, exc |-> "TypeError"]
    ELSE IF ~exists(files, args[1])
    THEN [fs |-> files, exc |-> "FileNotFoundError"]
    ELSE [fs |-> files, exc |-> NoExc]

\* The loader and the writer behind vector_to_geojson(path, output_path).
vector_to_geojson(files, path, output_path) ==
    IF ~exists(files, path)
    THEN [fs |-> files, exc |-> "DataSourceError"]
    ELSE [fs |-> write(files, resolve(output_path),
                       <<"geojson">> \o files[resolve(path)]),
          exc |-> NoExc]

(***************************************************************************)
(* ingest.ingest_facilities(raw_file, processed_file).                     *)
(***************************************************************************)
ingest_facilities(files, raw_file, processed_file) ==
    LET csv_path == join_path(FACILITIES.raw_dir, <<raw_file>>)
        output_path == join_path(FACILITIES.processed_dir, <<processed_file>>)
    IN  csv_to_geodataframe(files, <<csv_path, output_path>>)

(***************************************************************************)
(* What the disk and the server can hold before a call.                    *)
(***************************************************************************)
EntryNames ==
    {<<WatershedShp>>, <<"watershed.dbf">>,
     <<"..", WatershedShp>>, <<"/", WatershedShp>>}

Archives ==
    {[kind |-> "zip",
      entries |-> [k \in DOMAIN ns |->
                      [name |-> ns[k], data |-> <<"member" \o ToString(k)>>]]] :
        ns \in SeqsUpTo(EntryNames, MaxEntries)}

CorruptZip == [kind |-> "corrupt", entries |-> <<>>]

StalePaths ==
    {resolve(join_path(FWA_WATERSHED_GROUPS.raw_dir, n)) : n \in EntryNames}

IngestPaths ==
    {FWA_WATERSHED_GROUPS.raw_dir \o <<WatershedShp>>,
     FWA_WATERSHED_GROUPS.processed_dir \o <<WatershedGeojson>>,
     FACILITIES.raw_dir \o <<FacilitiesCsv>>,
     FACILITIES.processed_dir \o <<FacilitiesGeojson>>}

FilesOn(paths) == {[path \in ps |-> <<"old">>] : ps \in SUBSET paths}

Responses ==
    {[kind |-> k, body |-> NoZip] :
        k \in {"connection_error", "http_error", "broken_stream"}}
    \cup {[kind |-> "ok", body |-> b] : b \in Archives \cup {CorruptZip}}

(***************************************************************************)
(* A direct call of unzip_file.                                            *)
(***************************************************************************)
InitUnzip ==
    /\ heap = <<>>
    /\ pc = "unzip_file"
    /\ ret = 0
    /\ exc = NoExc
    /\ to_crs_calls = 0
    /\ fs \in FilesOn(StalePaths)
    /\ zip \in Archives \cup {CorruptZip, NoZip}
    /\ server = NoServer
    /\ overwrite \in BOOLEAN
    /\ extracted = <<>>
    /\ log = <<>>

UnzipFile ==
    /\ pc = "unzip_file"
    /\ LET r == unzip_file(fs, zip, FWA_WATERSHED_GROUPS.raw_dir, overwrite)
       IN  /\ fs' = r.fs
           /\ extracted' = r.extracted
           /\ exc' = r.exc
           /\ pc' = IF r.exc = NoExc THEN "returned" ELSE "raised"
           /\ log' = Append(log, [step |-> "unzip_file", exc |-> r.exc])
    /\ UNCHANGED <<joinVars, zip, server, overwrite>>

NextUnzip == UnzipFile

SpecUnzip == InitUnzip /\ [][NextUnzip]_vars

(***************************************************************************)
(* The ingestion workflows: ingest_facilities is one call;                 *)
(* ingest_watershed_groups is three collaborator calls in sequence, an     *)
(* exception of any of them ending the workflow.                           *)
(***************************************************************************)
InitIngest ==
    /\ heap = <<>>
    /\ pc \in {"ingest_facilities", "ingest_watershed_groups"}
    /\ ret = 0
    /\ exc = NoExc
    /\ to_crs_calls = 0
    /\ fs \in FilesOn(IngestPaths)
    /\ zip \in {NoZip, CorruptZip,
                [kind |-> "zip",
                 entries |-> <<[name |-> <<WatershedShp>>, data |-> <<"old">>]>>]}
    /\ server \in Responses
    /\ overwrite = TRUE
    /\ extracted = <<>>
    /\ log = <<>>

IngestFacilities ==
    /\ pc = "ingest_facilities"
    /\ LET r == ingest_facilities(fs, FacilitiesCsv, FacilitiesGeojson)
       IN  /\ fs' = r.fs
           /\ exc' = r.exc
           /\ pc' = IF r.exc = NoExc THEN "returned" ELSE "raised"
           /\ log' = Append(log, [step |-> "csv_to_geodataframe", exc |-> r.exc])
    /\ UNCHANGED <<joinVars, zip, server, overwrite, extracted>>

\* zip_path = download_shapefile( FWA_WATERSHED_GROUPS )
Download ==
    /\ pc = "ingest_watershed_groups"
    /\ LET r == download_shapefile(zip, server)
       IN  /\ zip' = r.zip
           /\ exc' = r.exc
           /\ pc' = IF r.exc = NoExc THEN "downloaded" ELSE "raised"
           /\ log' = Append(log, [step |-> "download_shapefile", exc |-> r.exc])
    /\ UNCHANGED <<joinVars, fs, server, overwrite, extracted>>

\* The extraction step with its exception caught and dropped.
Unzip_swallow ==
    /\ pc = "downloaded"
    /\ LET r == unzip_file(fs, zip, FWA_WATERSHED_GROUPS.raw_dir, TRUE)
       IN  /\ fs' = r.fs
           /\ exc' = NoExc
           /\ pc' = "extracted"
           /\ log' = Append(log, [step |-> "unzip_file", exc |-> r.exc])
    /\ UNCHANGED <<joinVars, zip, server, overwrite, extracted>>

\* unzip_file( zip_path, FWA_WATERSHED_GROUPS.raw_dir )
Unzip ==
    /\ pc = "downloaded"
    /\ LET r == unzip_file(fs, zip, FWA_WATERSHED_GROUPS.raw_dir, TRUE)
       IN  /\ fs' = r.fs
           /\ exc' = r.exc
           /\ pc' = IF r.exc = NoExc THEN "extracted" ELSE "raised"
           /\ log' = Append(log, [step |-> "unzip_file", exc |-> r.exc])
    /\ UNCHANGED <<joinVars, zip, server, overwrite, extracted>>

\* vector_to_geojson( raw_dir / raw_file, processed_dir / processed_file )
Convert ==
    /\ pc = "extracted"
    /\ LET r == vector_to_geojson(fs,
                    join_path(FWA_WATERSHED_GROUPS.raw_dir, <<WatershedShp>>),
                    join_path(FWA_WATERSHED_GROUPS.processed_dir,
                              <<WatershedGeojson>>))
       IN  /\ fs' = r.fs
           /\ exc' = r.exc
           /\ pc' = IF r.exc = NoExc THEN "returned" ELSE "raised"
           /\ log' = Append(log, [step |-> "vector_to_geojson", exc |-> r.exc])
    /\ UNCHANGED <<joinVars, zip, server, overwrite, extracted>>

NextIngest == IngestFacilities \/ Download \/ Unzip \/ Convert

SpecIngest == InitIngest /\ [][NextIngest]_vars

(***************************************************************************)
(* Vocabulary of the properties of the transform.                          *)
(***************************************************************************)
P == heap[Facilities]
G == heap[WatershedGroups]
R == heap[ret]

Returned == pc = "returned"

\* The polygons that really contain point i: both geometries are placed in
\* the reference frame, whatever frames they were supplied in.
StrictlyInterior(p, lo, hi) ==
    /\ lo[1] < p[1] /\ p[1] < hi[1]
    /\ lo[2] < p[2] /\ p[2] < hi[2]

Containing(i) ==
    {j \in DOMAIN G.rows :
        StrictlyInterior(ToReference(P.crs, P.rows[i].geometry),
                         ToReference(G.crs, G.rows[j].geometry.lo),
                         ToReference(G.crs, G.rows[j].geometry.hi))}

\* The result records derived from point i.
RecordsOf(i) == {k \in DOMAIN R.rows : R.rows[k].index = P.rows[i].index}

PolygonFields ==
    {"index_right"} \cup {right_name(c, P.columns) : c \in G.columns}

CarriesPoint(k, i) ==
    /\ R.rows[k].geometry = P.rows[i].geometry
    /\ \A c \in P.columns :
          R.rows[k].attrs[left_name(c, G.columns)] = P.rows[i].attrs[c]

CarriesPolygon(k, j) ==
    /\ R.rows[k].attrs["index_right"] = <<G.rows[j].index>>
    /\ \A c \in G.columns :
          R.rows[k].attrs[right_name(c, P.columns)] = G.rows[j].attrs[c]

PolygonNull(k) == \A c \in PolygonFields : R.rows[k].attrs[c] = NaN

Max(a, b) == IF a > b THEN a ELSE b

RECURSIVE ExpectedLength(_)
ExpectedLength(i) ==
    IF i = 0 THEN 0
    ELSE ExpectedLength(i - 1) + Max(1, Cardinality(Containing(i)))

\* The records of the points come in the order of the points.
GroupedInOrder ==
    \A k1, k2 \in DOMAIN R.rows :
        k1 <= k2 => R.rows[k1].index <= R.rows[k2].index

SomeOverlap == \E i \in DOMAIN P.rows : Cardinality(Containing(i)) >= 2

(***************************************************************************)
(* C1 (as stated): the join returns exactly len(P) records, the i-th one   *)
(* derived from the i-th point, also when polygons overlap.                *)
(***************************************************************************)
C1_JoinTotality_Original ==
    Returned =>
        /\ Len(R.rows) = Len(P.rows)
        /\ \A i \in DOMAIN P.rows : i \in DOMAIN R.rows /\ CarriesPoint(i, i)

(***************************************************************************)
(* C1 (amended): the join returns, in the order of the points, one record  *)
(* per point that no polygon contains and one record per containing        *)
(* polygon for every other point; so every point has a record, and the     *)
(* result has exactly len(P) records, the i-th derived from the i-th       *)
(* point, whenever no point lies within two polygons.                      *)
(***************************************************************************)
C1_JoinTotality ==
    Returned =>
        /\ Len(R.rows) = ExpectedLength(Len(P.rows))
        /\ GroupedInOrder
        /\ \A i \in DOMAIN P.rows :
              /\ Cardinality(RecordsOf(i)) = Max(1, Cardinality(Containing(i)))
              /\ \A k \in RecordsOf(i) : CarriesPoint(k, i)
        /\ ~SomeOverlap =>
              /\ Len(R.rows) = Len(P.rows)
              /\ \A i \in DOMAIN P.rows : CarriesPoint(i, i)

C1_Witness ==
    /\ Returned
    /\ Len(P.rows) = MaxPoints
    /\ Len(R.rows) > Len(P.rows)
    /\ \E i \in DOMAIN P.rows : Containing(i) = {}

(***************************************************************************)
(* C2 (as stated): a point within two or more polygons gets exactly one    *)
(* record, attached to the first containing polygon in polygon order.      *)
(***************************************************************************)
C2_TieBreak_Original ==
    Returned =>
        \A i \in DOMAIN P.rows :
            /\ Cardinality(RecordsOf(i)) = 1
            /\ Cardinality(Containing(i)) >= 2 =>
                  \A k \in RecordsOf(i) :
                      CarriesPolygon(k, CHOOSE j \in Containing(i) :
                                            \A j2 \in Containing(i) : j <= j2)

(***************************************************************************)
(* C2 (amended): a point within k >= 2 polygons gets exactly k records,    *)
(* one for each containing polygon; a point gets a single record exactly   *)
(* when at most one polygon contains it.                                   *)
(***************************************************************************)
C2_TieBreak ==
    Returned =>
        \A i \in DOMAIN P.rows :
            /\ Cardinality(Containing(i)) >= 2 =>
                  /\ Cardinality(RecordsOf(i)) = Cardinality(Containing(i))
                  /\ \A j \in Containing(i) :
                        Cardinality({k \in RecordsOf(i) :
                                        CarriesPolygon(k, j)}) = 1
            /\ Cardinality(RecordsOf(i)) = 1
                  <=> Cardinality(Containing(i)) <= 1

C2_Witness ==
    /\ Returned
    /\ \E i \in DOMAIN P.rows :
          /\ Cardinality(Containing(i)) = 2
          /\ Cardinality(RecordsOf(i)) = 2
          /\ G.rows[1].geometry # G.rows[2].geometry

C4_JoinCorrectness ==
    Returned =>
        \A i \in DOMAIN P.rows :
            \A j \in DOMAIN G.rows :
                Containing(i) = {j} =>
                    /\ Cardinality(RecordsOf(i)) = 1
                    /\ \A k \in RecordsOf(i) :
                          /\ CarriesPoint(k, i)
                          /\ CarriesPolygon(k, j)
                          /\ ~PolygonNull(k)

\* A point inside one polygon and on the boundary of the other one.
C4_Witness ==
    /\ Returned
    /\ Len(G.rows) = 2
    /\ \E i \in DOMAIN P.rows :
          /\ Containing(i) = {2}
          /\ P.rows[i].geometry[1] = G.rows[1].geometry.hi[1]
          /\ \A k \in RecordsOf(i) : CarriesPolygon(k, 2)

(***************************************************************************)
(* C5 (as stated): whenever the two CRS identifiers differ, the call       *)
(* joins the points, in their own CRS, with the polygons transformed into  *)
(* the points' CRS, and reports every pair that overlaps after             *)
(* reprojection.                                                           *)
(***************************************************************************)
ReprojectedJoin ==
    /\ Returned
    /\ to_crs_calls = 1
    /\ R.crs = P.crs
    /\ \A k \in DOMAIN R.rows :
          \E i \in DOMAIN P.rows : k \in RecordsOf(i) /\ CarriesPoint(k, i)
    /\ \A i \in DOMAIN P.rows :
          \A j \in DOMAIN G.rows :
              j \in Containing(i)
                  <=> \E k \in RecordsOf(i) : CarriesPolygon(k, j)

C5_CrsReconciliation_Original ==
    (pc # "ready" /\ P.crs # G.crs) => ReprojectedJoin

(***************************************************************************)
(* C5 (amended): whenever the two CRS identifiers differ and both are      *)
(* set, the call joins the points, in their own CRS, with the polygons     *)
(* transformed into the points' CRS: the points are not reprojected, the   *)
(* result carries the points' CRS, and every pair that overlaps after      *)
(* reprojection is reported.  When they differ because exactly one of      *)
(* them is unset, the call raises ValueError and joins nothing.            *)
(***************************************************************************)
C5_CrsReconciliation ==
    (pc # "ready" /\ P.crs # G.crs) =>
        IF NoCRS \in {P.crs, G.crs}
        THEN pc = "raised" /\ exc = "ValueError" /\ ret = 0
        ELSE ReprojectedJoin

\* A pair that overlaps only after reprojection.
C5_Witness ==
    /\ Returned
    /\ P.crs # G.crs
    /\ \E i \in DOMAIN P.rows :
          \E j \in DOMAIN G.rows :
              /\ j \in Containing(i)
              /\ ~StrictlyInterior(P.rows[i].geometry,
                                   G.rows[j].geometry.lo, G.rows[j].geometry.hi)
              /\ \E k \in RecordsOf(i) : CarriesPolygon(k, j)

(***************************************************************************)
(* C6: whenever the two CRS identifiers are equal (both unset included)    *)
(* the call makes no to_crs call, allocates no reprojected copy and joins  *)
(* with the polygons exactly as supplied; and the polygons the call has    *)
(* normalized are left alone by a second normalization: the call on them   *)
(* makes no to_crs call and yields the same records.                       *)
(***************************************************************************)
C6_CrsNoOp ==
    /\ (pc # "ready" /\ P.crs = G.crs) =>
          /\ Returned
          /\ to_crs_calls = 0
          /\ Len(heap) = 3
          /\ R.rows = joined_rows(P, G, 1)
    /\ (Returned /\ to_crs_calls = 1) =>
          LET again == link_facilities_to_watershed_groups(heap, Facilities, 3)
          IN  /\ again.calls = 0
              /\ again.exc = NoExc
              /\ again.heap[again.ref] = R

C6_Witness ==
    /\ Returned
    /\ P.crs = NoCRS
    /\ G.crs = NoCRS
    /\ to_crs_calls = 0
    /\ Len(R.rows) = MaxPoints

(***************************************************************************)
(* C7: no call, returning or raising, with equal or differing CRS, changes *)
(* the caller's two collections; what it returns is a new object.          *)
(***************************************************************************)
C7_InputsNotMutated ==
    [][/\ heap'[Facilities] = heap[Facilities]
       /\ heap'[WatershedGroups] = heap[WatershedGroups]
       /\ ret' # 0 => ret' > Len(heap)]_vars

C7_Witness ==
    /\ Returned
    /\ to_crs_calls = 1
    /\ Len(heap) = 4
    /\ heap[3].crs = P.crs
    /\ G.crs # P.crs
    /\ G.rows # <<>>

(***************************************************************************)
(* Vocabulary of the properties of the ingestion and of the extraction.    *)
(***************************************************************************)
WatershedSteps == <<"download_shapefile", "unzip_file", "vector_to_geojson">>

ShpPath == FWA_WATERSHED_GROUPS.raw_dir \o <<WatershedShp>>
WatershedGeojsonPath == FWA_WATERSHED_GROUPS.processed_dir \o <<WatershedGeojson>>
CsvPath == FACILITIES.raw_dir \o <<FacilitiesCsv>>
FacilitiesGeojsonPath == FACILITIES.processed_dir \o <<FacilitiesGeojson>>

\* The file at path was written by a conversion (a file left by an earlier
\* run has the content <<"old">>).
Converted(path) == path \in DOMAIN fs /\ Head(fs[path]) = "geojson"

InWatershedIngest == log # <<>> /\ log[1].step = "download_shapefile"
InFacilitiesIngest == log # <<>> /\ log[1].step = "csv_to_geodataframe"

Range(seq) == {seq[k] : k \in DOMAIN seq}

(***************************************************************************)
(* C8: ingest_watershed_groups calls download_shapefile, unzip_file and    *)
(* vector_to_geojson in this order, each one only after the one before it  *)
(* returned without an exception; the exception of a collaborator is the   *)
(* exception of the workflow, no later step runs after it, and the         *)
(* processed GeoJSON is written only after a successful download and a     *)
(* successful extraction.                                                  *)
(***************************************************************************)
C8_IngestionOrdering ==
    InWatershedIngest =>
        /\ Len(log) <= Len(WatershedSteps)
        /\ \A k \in DOMAIN log :
              /\ log[k].step = WatershedSteps[k]
              /\ k < Len(log) => log[k].exc = NoExc
        /\ pc = "raised" <=> log[Len(log)].exc # NoExc
        /\ pc = "raised" => exc = log[Len(log)].exc
        /\ pc = "returned" => Len(log) = Len(WatershedSteps)
        /\ Converted(WatershedGeojsonPath) =>
              /\ Len(log) = Len(WatershedSteps)
              /\ log[1].exc = NoExc
              /\ log[2].exc = NoExc

\* A failed extraction with a shapefile of an earlier run on disk: the
\* workflow has stopped and nothing was converted.
C8_Witness ==
    /\ InWatershedIngest
    /\ pc = "raised"
    /\ exc = "BadZipFile"
    /\ Len(log) = 2
    /\ ShpPath \in DOMAIN fs
    /\ ~Converted(WatershedGeojsonPath)

(***************************************************************************)
(* C9: ingest_facilities converts the facilities CSV to GeoJSON: a call    *)
(* made with raw_dir/raw_file on disk returns normally, and a call that    *)
(* returns normally has loaded that file and written the GeoJSON made of   *)
(* it at processed_dir/processed_file.                                     *)
(***************************************************************************)
C9_IngestFacilitiesConverts ==
    InFacilitiesIngest =>
        /\ CsvPath \in DOMAIN fs => pc = "returned"
        /\ pc = "returned" =>
              /\ CsvPath \in DOMAIN fs
              /\ Converted(FacilitiesGeojsonPath)
              /\ fs[FacilitiesGeojsonPath] = <<"geojson">> \o fs[CsvPath]

(***************************************************************************)
(* C10: unzip_file with overwrite=True extracts every entry and returns    *)
(* all the target paths in archive order; with overwrite=False an entry    *)
(* whose target path exists already is skipped, its file is left as it     *)
(* was and its path is not returned, while every other entry is extracted  *)
(* and returned.  In both modes the returned paths are exactly the paths   *)
(* this call has written.                                                  *)
(***************************************************************************)
C10_OverwritePolicy ==
    [][(pc = "unzip_file" /\ pc' = "returned") =>
        LET out == FWA_WATERSHED_GROUPS.raw_dir
            target(k) == join_path(out, zip.entries[k].name)
            file(k) == resolve(target(k))
            Extracted(k) ==
                /\ target(k) \in Range(extracted')
                /\ file(k) \in DOMAIN fs'
                /\ fs'[file(k)] = member_data(zip.entries, zip.entries[k].name)
            written == {path \in DOMAIN fs' :
                           path \notin DOMAIN fs \/ fs'[path] # fs[path]}
        IN  /\ overwrite =>
                  /\ extracted' = [k \in DOMAIN zip.entries |-> target(k)]
                  /\ \A k \in DOMAIN zip.entries : Extracted(k)
            /\ ~overwrite =>
                  \A k \in DOMAIN zip.entries :
                      IF file(k) \in DOMAIN fs
                      THEN /\ fs'[file(k)] = fs[file(k)]
                           /\ target(k) \notin Range(extracted')
                      ELSE Extracted(k)
            /\ {resolve(t) : t \in Range(extracted')} = written]_vars

====
